---- MODULE Spec2Model ----
(***************************************************************************)
(* Ground-track engine of the ISS tracker scripts:                         *)
(*   - calculate_visibility_circle  (footprint sampling, both TLE scripts) *)
(*   - calculate_orbit_path         (windowed path sampling, day/night)    *)
(*   - the four interactive sessions: the TLE trail tracker                *)
(*     ("ISS project. Py 3"), the live tracker ("ISS project 1"), the      *)
(*     visibility tracker (20250522) and the day/night tracker (20250523). *)
(*                                                                         *)
(* Numbers.  Instants are whole seconds.  Latitudes and longitudes are     *)
(* whole degrees.  Trigonometric values are fixed-point with sin 90 =      *)
(* SinTab[91].  Bearings are kept exact, in units of 1/TwoPi of a turn.    *)
(***************************************************************************)
EXTENDS Integers, Sequences, FiniteSets

VARIABLES
    \* ---- footprint call (calculate_visibility_circle) ----
    f_lat, f_lon, f_radius,     \* arguments lat, lon, radius_km
    f_called,                   \* the call has returned
    f_angles,                   \* local: angles
    circle_lons, circle_lats,   \* returned lists
    \* ---- path call (calculate_orbit_path) ----
    p_center, p_before, p_after, p_step,   \* center_time, dt_before, dt_after, step
    p_bad,                      \* instants at which iss_obj.compute raises
    p_called,                   \* the call has ended
    p_res,                      \* how it ended, with its locals and lists
    \* ---- one interactive session of one of the four scripts ----
    prog,                       \* which script runs: "tle", "live", "vis", "daynight"
    pc,                         \* "update": a recomputation pass is due; "idle"; "crashed"
    current_time,               \* the time cursor (global current_time), seconds
    bad,                        \* instants at which iss.compute raises
    iss_at,                     \* << t >>: the instant the shared iss object was last computed for
    past_lons, past_lats,       \* trail of the TLE trail tracker
    positions,                  \* trail of the live tracker, (lon, lat) pairs
    marker,                     \* data of the ISS marker artist: << >> or << lon, lat >>
    orbit_path,                 \* data of the orbit path artist: [lons, lats]
    circle,                     \* arguments of the footprint last drawn: << >> or << lat, lon, radius_km >>
    dist_from,                  \* sub-point both distances were last computed from
    title,                      \* instant and sub-point last written to the title
    shade,                      \* instant of the day/night shading
    \* ---- history variables (not program state) ----
    start_time,                 \* the cursor's initial value
    pushed,                     \* every point pushed to the trail, in push order
    keys,                       \* number of key events so far, per key
    passes,                     \* number of recomputation passes run so far
    pass_result,                \* outcome of the last pass: "none", "ok", "failed", "partial"
    undo                        \* the last forward advance, the cursor before it, and
                                \* whether the matching backward advance came next

footVars == << f_lat, f_lon, f_radius, f_called, f_angles, circle_lons, circle_lats >>
pathVars == << p_center, p_before, p_after, p_step, p_bad, p_called, p_res >>
sessVars == << prog, pc, current_time, bad, iss_at, past_lons, past_lats, positions,
               marker, orbit_path, circle, dist_from, title, shade,
               start_time, pushed, keys, passes, pass_result, undo >>

----------------------------------------------------------------------------
(* Fixed-point trigonometry standing for numpy's sin, cos, arcsin, arctan2 *)

\* sin(d degrees) * 10000 for d = 0..90, at index d+1
SinTab ==
    << 0, 175, 349, 523, 698, 872, 1045, 1219, 1392, 1564,
       1736, 1908, 2079, 2250, 2419, 2588, 2756, 2924, 3090, 3256,
       3420, 3584, 3746, 3907, 4067, 4226, 4384, 4540, 4695, 4848,
       5000, 5150, 5299, 5446, 5592, 5736, 5878, 6018, 6157, 6293,
       6428, 6561, 6691, 6820, 6947, 7071, 7193, 7314, 7431, 7547,
       7660, 7771, 7880, 7986, 8090, 8192, 8290, 8387, 8480, 8572,
       8660, 8746, 8829, 8910, 8988, 9063, 9135, 9205, 9272, 9336,
       9397, 9455, 9511, 9563, 9613, 9659, 9703, 9744, 9781, 9816,
       9848, 9877, 9903, 9925, 9945, 9962, 9976, 9986, 9994, 9998,
       10000 >>

\* the fixed-point representation of 1.0
One == SinTab[91]

Abs(x) == IF x < 0 THEN -x ELSE x

\* product of two fixed-point values, rounded toward zero
Mul(a, b) ==
    LET p == a * b
    IN  IF p >= 0 THEN p \div One ELSE -((-p) \div One)

\* np.sin of an angle in whole degrees
SinDeg(d) ==
    LET m == d % 360
    IN  IF m <= 90 THEN SinTab[m + 1]
        ELSE IF m <= 180 THEN SinTab[180 - m + 1]
        ELSE IF m <= 270 THEN -SinTab[m - 180 + 1]
        ELSE -SinTab[360 - m + 1]

\* np.cos of an angle in whole degrees
CosDeg(d) == SinDeg(d + 90)

\* np.arcsin, to the nearest whole degree, in -90..90
ArcSinDeg(v) ==
    LET a == Cardinality({d \in 1..90 : SinTab[d] + SinTab[d + 1] <= 2 * Abs(v)})
    IN  IF v < 0 THEN -a ELSE a

\* np.arctan2(y, x), to the nearest whole degree, in -180..180
ArcTan2Deg(y, x) ==
    LET ay == Abs(y)
        ax == Abs(x)
        \* d is counted when tan(d - 1/2) <= ay / ax
        a  == IF ay = 0 THEN 0
              ELSE Cardinality({d \in 1..90 :
                       ax * (SinTab[d] + SinTab[d + 1])
                         <= ay * (SinTab[92 - d] + SinTab[91 - d])})
        q  == IF x >= 0 THEN a ELSE 180 - a
    IN  IF y < 0 THEN -q ELSE q

----------------------------------------------------------------------------
(* calculate_visibility_circle                                             *)

\* number of samples: the 100 of np.linspace(0, 2 * np.pi, 100)
PointCount == 100

\* earth_radius_km = 6371.0
EarthRadiusKm == 6371

\* 2 * np.pi in bearing units; the unit is chosen so that both 2pi/PointCount
\* and 2pi/(PointCount - 1) are whole numbers of units
TwoPi == PointCount * (PointCount - 1)

\* a bearing in units, to the nearest whole degree
BearingDeg(u) == (u * 360 + TwoPi \div 2) \div TwoPi

\* a mutant of linspace: the end point left out (endpoint=False)
linspace_open(start, stop, num) ==
    [k \in 1..num |-> start + ((k - 1) * (stop - start)) \div num]

\* np.linspace(start, stop, num): num samples, both ends included
linspace(start, stop, num) ==
    [k \in 1..num |-> start + ((k - 1) * (stop - start)) \div (num - 1)]

\* delta = radius_km / earth_radius_km, radians, as whole degrees
\* (57296 / 1000 = 180 / pi)
DeltaDeg(radius_km) ==
    (radius_km * 57296 + (EarthRadiusKm * 1000) \div 2) \div (EarthRadiusKm * 1000)

\* circle_lat of one loop iteration, degrees
CircleLat(lat, delta, bearing) ==
    ArcSinDeg(Mul(SinDeg(lat), CosDeg(delta))
              + Mul(Mul(CosDeg(lat), SinDeg(delta)), CosDeg(bearing)))

\* circle_lon of one loop iteration, degrees: np.radians(lon) + np.arctan2(...)
CircleLon(lat, lon, delta, bearing) ==
    lon + ArcTan2Deg(
              Mul(Mul(SinDeg(bearing), SinDeg(delta)), CosDeg(lat)),
              CosDeg(delta) - Mul(SinDeg(lat), SinDeg(CircleLat(lat, delta, bearing))))

\* the function: the bearings it samples and the two lists it returns
calculate_visibility_circle(lat, lon, radius_km) ==
    LET angles == linspace(0, TwoPi, PointCount)
        delta  == DeltaDeg(radius_km)
    IN  [ angles |-> angles,
          lons   |-> [k \in 1..PointCount |->
                         CircleLon(lat, lon, delta, BearingDeg(angles[k]))],
          lats   |-> [k \in 1..PointCount |->
                         CircleLat(lat, delta, BearingDeg(angles[k]))] ]

----------------------------------------------------------------------------
(* The sub-point propagator.  iss.compute(t) followed by the reads of      *)
(* iss.sublong and iss.sublat is the external library's work; it is a      *)
(* deterministic function of the instant, which either yields a sub-point  *)
(* or raises.  SubLon and SubLat are a fixed ground track standing for it: *)
(* about one degree of longitude per 10 s, latitude swinging in -52..52.   *)

\* a longitude in whole degrees brought into (-180, 180]
Wrap180(x) == 180 - ((180 - x) % 360)

\* float(iss.sublong) * 180.0 / ephem.pi after iss.compute(t)
SubLon(t) == Wrap180(t \div 10)

\* float(iss.sublat) * 180.0 / ephem.pi after iss.compute(t)
SubLat(t) ==
    LET phase == (t \div 26) % 208
    IN  IF phase <= 104 THEN phase - 52 ELSE 156 - phase

\* iss.compute(t) raises exactly at the instants of bad
ComputeRaises(t, failing) == t \in failing

----------------------------------------------------------------------------
(* calculate_orbit_path                                                    *)

\* the longest list of instants the while loop can hold; a loop that
\* reaches it never ends normally (it runs until memory is exhausted)
MaxTimes == 64

\* a mutant of BuildTimes: the loop test is current < end_time
RECURSIVE BuildTimesStrict(_, _, _, _)
BuildTimesStrict(current, end_time, step, times) ==
    IF ~(current < end_time) THEN [ended |-> TRUE, times |-> times]
    ELSE IF Len(times) >= MaxTimes THEN [ended |-> FALSE, times |-> times]
    ELSE BuildTimesStrict(current + step, end_time, step, Append(times, current))

\* while current <= end_time: times.append(current); current += step
RECURSIVE BuildTimes(_, _, _, _)
BuildTimes(current, end_time, step, times) ==
    IF ~(current <= end_time) THEN [ended |-> TRUE, times |-> times]
    ELSE IF Len(times) >= MaxTimes THEN [ended |-> FALSE, times |-> times]
    ELSE BuildTimes(current + step, end_time, step, Append(times, current))

\* a mutant of WindowTimes: the first instant is one step late
WindowTimesLate(center_time, dt_before, dt_after, step) ==
    BuildTimes(center_time - dt_before + step, center_time + dt_after, step, << >>)

\* the instants of the window, as the while loop generates them
WindowTimes(center_time, dt_before, dt_after, step) ==
    BuildTimes(center_time - dt_before, center_time + dt_after, step, << >>)

\* for t in times: iss_obj.compute(t); lons.append(..); lats.append(..)
\* The loop stops at the first instant whose compute raises.
\* status: "returned" (lons, lats are the result), "raised" (the exception
\* leaves the function, nothing is returned), "exhausted" (the while loop
\* never ended).  iss_at: the instant iss_obj was last computed for.
calculate_orbit_path(obj_at, center_time, dt_before, dt_after, step, failing) ==
    LET w     == WindowTimes(center_time, dt_before, dt_after, step)
        times == w.times
        fails == {k \in 1..Len(times) : ComputeRaises(times[k], failing)}
        \* number of instants computed without raising
        n     == IF fails = {} THEN Len(times)
                 ELSE (CHOOSE k \in fails : \A j \in fails : k <= j) - 1
    IN  IF ~w.ended
        THEN [ status |-> "exhausted", times |-> times,
               lons |-> << >>, lats |-> << >>, iss_at |-> obj_at ]
        ELSE [ status |-> IF fails = {} THEN "returned" ELSE "raised",
               times  |-> times,
               lons   |-> [k \in 1..n |-> SubLon(times[k])],
               lats   |-> [k \in 1..n |-> SubLat(times[k])],
               iss_at |-> IF n = 0 THEN obj_at ELSE << times[n] >> ]

----------------------------------------------------------------------------
(* The trail buffers *)

\* capacity of the TLE tracker's trail; stands for the 100 of
\* "if len(past_lons) > 100"
CapTLE == 3

\* capacity of the live tracker's trail; stands for the 200 of
\* "if len(positions) > 200"
CapLive == 4

\* a mutant of PushTLE: on overflow the newest entry is dropped
PushTLEDropNewest(lons, lats, lon, lat) ==
    LET a == Append(lons, lon)
        b == Append(lats, lat)
    IN  IF Len(a) > CapTLE
        THEN [lons |-> SubSeq(a, 1, Len(a) - 1), lats |-> SubSeq(b, 1, Len(b) - 1)]
        ELSE [lons |-> a, lats |-> b]

\* past_lons.append(lon); past_lats.append(lat);
\* if len(past_lons) > 100: past_lons.pop(0); past_lats.pop(0)
PushTLE(lons, lats, lon, lat) ==
    LET a == Append(lons, lon)
        b == Append(lats, lat)
    IN  IF Len(a) > CapTLE
        THEN [lons |-> Tail(a), lats |-> Tail(b)]
        ELSE [lons |-> a, lats |-> b]

\* positions.append((lon, lat)); if len(positions) > 200: positions.pop(0)
PushLive(ps, point) ==
    LET a == Append(ps, point)
    IN  IF Len(a) > CapLive THEN Tail(a) ELSE a

----------------------------------------------------------------------------
(* The time cursor: on_key of the three TLE scripts *)

\* time_step of the TLE trail tracker and of the visibility tracker, seconds
TimeStep10 == 10

\* time_step of the day/night tracker: timedelta(seconds=30)
TimeStep30 == 30

\* long_time_step of the day/night tracker: timedelta(minutes=10)
LongTimeStep == 600

\* event.key of a key event; "none" stands for event.key = None
Keys == {"right", "left", "shift+right", "shift+left", "up", "none"}

\* a mutant of on_key_daynight: the long backward jump goes forward
on_key_daynight_long_back_forward(key, t) ==
    CASE key = "right"       -> t + TimeStep30
      [] key = "shift+right" -> t + LongTimeStep
      [] key = "left"        -> t - TimeStep30
      [] key = "shift+left"  -> t + LongTimeStep
      [] OTHER               -> t

\* a mutant of on_key_daynight: the cursor cannot be moved before instant 0
on_key_daynight_clamped(key, t) ==
    CASE key = "right"       -> t + TimeStep30
      [] key = "shift+right" -> t + LongTimeStep
      [] key = "left"        -> IF t - TimeStep30 < 0 THEN 0 ELSE t - TimeStep30
      [] key = "shift+left"  -> IF t - LongTimeStep < 0 THEN 0 ELSE t - LongTimeStep
      [] OTHER               -> t

\* current_time after on_key of the day/night tracker, which tests
\* event.key.lower() against the four arrow names ("none": event.key is
\* None, .lower() raises and the cursor is not touched)
on_key_daynight(key, t) ==
    CASE key = "right"       -> t + TimeStep30
      [] key = "shift+right" -> t + LongTimeStep
      [] key = "left"        -> t - TimeStep30
      [] key = "shift+left"  -> t - LongTimeStep
      [] OTHER               -> t

\* current_time after on_key of the TLE trail tracker
on_key_tle(key, t) ==
    CASE key = "right" -> t + TimeStep10
      [] key = "left"  -> t - TimeStep10
      [] OTHER         -> t

\* current_time after on_key of the visibility tracker
on_key_vis(key, t) ==
    CASE key = "right" -> t + TimeStep10
      [] key = "left"  -> t - TimeStep10
      [] OTHER         -> t

\* current_time after the running script's on_key
on_key_time(p, key, t) ==
    CASE p = "daynight" -> on_key_daynight(key, t)
      [] p = "tle"      -> on_key_tle(key, t)
      [] OTHER          -> on_key_vis(key, t)

\* an on_key that calls update_position whatever the key
on_key_updates_any_key(p, key) ==
    CASE p = "daynight" -> key # "none"
      [] OTHER          -> TRUE

\* whether on_key goes on to call update_position: the TLE trail tracker
\* returns on any other key; the day/night tracker raises on
\* event.key.lower() when event.key is None; otherwise the call is made
on_key_updates(p, key) ==
    CASE p = "tle"      -> key \in {"right", "left"}
      [] p = "daynight" -> key # "none"
      [] OTHER          -> TRUE

----------------------------------------------------------------------------
(* The recomputation passes: update_position of the three TLE scripts     *)

\* ISS_VIEW_RANGE, km
ISS_VIEW_RANGE == 2000

\* isspath_dt_before, isspath_dt_after: timedelta(minutes=30), seconds
IssPathBefore == 1800
IssPathAfter == 1800

\* isspath_step: timedelta(seconds=60)
IssPathStep == 60

\* the sub-point read after iss.compute(t)
SubPoint(t) == << SubLon(t), SubLat(t) >>

\* a mutant of update_position_tle: the trail is appended to before the
\* propagation is known to have succeeded
update_position_tle_push_first(t, fails, lons, lats, mk, at) ==
    LET r == PushTLE(lons, lats, SubLon(t), SubLat(t))
    IN  IF fails
        THEN [ result |-> "failed", past_lons |-> r.lons, past_lats |-> r.lats,
               marker |-> mk, iss_at |-> at, pushes |-> << >> ]
        ELSE [ result |-> "ok", past_lons |-> r.lons, past_lats |-> r.lats,
               marker |-> SubPoint(t), iss_at |-> << t >>,
               pushes |-> << SubPoint(t) >> ]

\* update_position of the TLE trail tracker.  fails: iss.compute raises;
\* the exception leaves the function before anything is stored.
update_position_tle(t, fails, lons, lats, mk, at) ==
    IF fails
    THEN [ result |-> "failed", past_lons |-> lons, past_lats |-> lats,
           marker |-> mk, iss_at |-> at, pushes |-> << >> ]
    ELSE LET r == PushTLE(lons, lats, SubLon(t), SubLat(t))
         IN  [ result |-> "ok", past_lons |-> r.lons, past_lats |-> r.lats,
               marker |-> SubPoint(t), iss_at |-> << t >>,
               pushes |-> << SubPoint(t) >> ]

\* update_position of the visibility tracker: everything is inside
\* try/except, so a raising iss.compute leaves every artist as it was
update_position_vis(t, fails, out) ==
    IF fails
    THEN [out EXCEPT !.result = "failed"]
    ELSE [out EXCEPT !.result = "ok",
                     !.iss_at = << t >>,
                     !.marker = SubPoint(t),
                     !.circle = << SubLat(t), SubLon(t), ISS_VIEW_RANGE >>,
                     !.title  = << t, SubLat(t), SubLon(t) >>]

\* a pass that reads lon, lat from the iss object only after
\* calculate_orbit_path has moved it
update_position_daynight_reads_after_path(t, fails, bad_instants, out) ==
    IF fails
    THEN [out EXCEPT !.result = "failed"]
    ELSE LET path == calculate_orbit_path(<< t >>, t, IssPathBefore, IssPathAfter,
                                          IssPathStep, bad_instants)
             lon  == SubLon(path.iss_at[1])
             lat  == SubLat(path.iss_at[1])
         IN  IF path.status # "returned"
             THEN [out EXCEPT !.result = "partial",
                              !.iss_at = path.iss_at,
                              !.marker = << SubLon(t), SubLat(t) >>]
             ELSE [out EXCEPT !.result = "ok",
                              !.iss_at = path.iss_at,
                              !.marker = << SubLon(t), SubLat(t) >>,
                              !.orbit_path = [lons |-> path.lons, lats |-> path.lats],
                              !.shade = << t >>,
                              !.circle = << lat, lon, ISS_VIEW_RANGE >>,
                              !.dist_from = << lat, lon >>,
                              !.title = << t, lat, lon >>]

\* update_position of the day/night tracker.  lon, lat are read once,
\* right after iss.compute(current_time); calculate_orbit_path then moves
\* the same iss object; an exception anywhere ends the pass at that point
\* (except Exception), leaving what was already set.
update_position_daynight(t, fails, bad_instants, out) ==
    IF fails
    THEN [out EXCEPT !.result = "failed"]
    ELSE LET lon  == SubLon(t)
             lat  == SubLat(t)
             path == calculate_orbit_path(<< t >>, t, IssPathBefore, IssPathAfter,
                                          IssPathStep, bad_instants)
         IN  IF path.status # "returned"
             THEN [out EXCEPT !.result = "partial",
                              !.iss_at = path.iss_at,
                              !.marker = << lon, lat >>]
             ELSE [out EXCEPT !.result = "ok",
                              !.iss_at = path.iss_at,
                              !.marker = << lon, lat >>,
                              !.orbit_path = [lons |-> path.lons, lats |-> path.lats],
                              !.shade = << t >>,
                              !.circle = << lat, lon, ISS_VIEW_RANGE >>,
                              !.dist_from = << lat, lon >>,
                              !.title = << t, lat, lon >>]

----------------------------------------------------------------------------
(* The sessions *)

Progs == {"tle", "live", "vis", "daynight"}

\* the cursor's initial value: the fixed datetime of the TLE trail tracker
\* is instant 0; the other scripts start at utcnow()
StartTimes(p) == IF p = "tle" THEN {0} ELSE {0, 60}

\* instants at which propagation may fail
BadInstants == {-10, 20, 30, 1860}

\* what get_iss_position can return: None, or (lon, lat, timestamp)
LiveResults == { << >>, << 10, 20, 5 >>, << 11, 21, 10 >> }

\* key events explored per session
MaxKeys == 4

\* recomputation passes explored per live session
MaxFrames == 6

KeyCount ==
    keys["right"] + keys["left"] + keys["shift+right"] + keys["shift+left"]
        + keys["up"] + keys["none"]

\* the artists and the shared iss object, as one record
Outputs ==
    [ result |-> pass_result, iss_at |-> iss_at, marker |-> marker,
      orbit_path |-> orbit_path, circle |-> circle, dist_from |-> dist_from,
      title |-> title, shade |-> shade ]

SetOutputs(out) ==
    /\ pass_result' = out.result
    /\ iss_at' = out.iss_at
    /\ marker' = out.marker
    /\ orbit_path' = out.orbit_path
    /\ circle' = out.circle
    /\ dist_from' = out.dist_from
    /\ title' = out.title
    /\ shade' = out.shade

InitSession ==
    /\ prog \in Progs
    /\ pc = "update"
    /\ current_time \in StartTimes(prog)
    /\ start_time = current_time
    /\ bad \in (IF prog = "live" THEN {{}} ELSE SUBSET BadInstants)
    /\ iss_at = << >>
    /\ past_lons = << >> /\ past_lats = << >>
    /\ positions = << >>
    /\ marker = << >>
    /\ orbit_path = [lons |-> << >>, lats |-> << >>]
    /\ circle = << >>
    /\ dist_from = << >>
    /\ title = << >>
    /\ shade = (IF prog = "daynight" THEN << current_time >> ELSE << >>)
    /\ pushed = << >>
    /\ keys = [k \in Keys |-> 0]
    /\ passes = 0
    /\ pass_result = "none"
    /\ undo = [key |-> "none", t |-> 0, back |-> FALSE]

\* the forward advances of a script and the backward advance undoing each
ForwardKeys(p) == IF p = "daynight" THEN {"right", "shift+right"} ELSE {"right"}
BackwardOf(key) == IF key = "right" THEN "left" ELSE "shift+left"

\* on_key(event): the cursor moves, then (unless the handler has returned or
\* raised) update_position is called
OnKey(key) ==
    /\ prog \in {"tle", "vis", "daynight"}
    /\ pc = "idle"
    /\ KeyCount < MaxKeys
    /\ current_time' = on_key_time(prog, key, current_time)
    /\ pc' = IF on_key_updates(prog, key) THEN "update" ELSE "idle"
    /\ keys' = [keys EXCEPT ![key] = @ + 1]
    /\ undo' = IF key \in ForwardKeys(prog)
               THEN [key |-> key, t |-> current_time, back |-> FALSE]
               ELSE IF undo.key \in ForwardKeys(prog) /\ ~undo.back
                       /\ key = BackwardOf(undo.key)
               THEN [undo EXCEPT !.back = TRUE]
               ELSE [key |-> "none", t |-> 0, back |-> FALSE]
    /\ UNCHANGED << prog, bad, iss_at, past_lons, past_lats, positions, marker,
                    orbit_path, circle, dist_from, title, shade, start_time,
                    pushed, passes, pass_result >>
    /\ UNCHANGED << footVars, pathVars >>

\* update_position() of the TLE trail tracker: the call at startup and the
\* call at the end of on_key.  At startup the exception is uncaught and ends
\* the script; inside on_key it ends the handler only.
UpdateTLE ==
    /\ prog = "tle"
    /\ pc = "update"
    /\ LET r == update_position_tle(current_time, ComputeRaises(current_time, bad),
                                    past_lons, past_lats, marker, iss_at)
       IN  /\ past_lons' = r.past_lons
           /\ past_lats' = r.past_lats
           /\ marker' = r.marker
           /\ iss_at' = r.iss_at
           /\ pushed' = pushed \o r.pushes
           /\ pass_result' = r.result
           /\ title' = IF r.result = "ok"
                       THEN << current_time, SubLat(current_time), SubLon(current_time) >>
                       ELSE title
           /\ pc' = IF r.result = "failed" /\ passes = 0 THEN "crashed" ELSE "idle"
    /\ passes' = passes + 1
    /\ UNCHANGED << prog, current_time, bad, positions, orbit_path, circle,
                    dist_from, shade, start_time, keys, undo >>
    /\ UNCHANGED << footVars, pathVars >>

\* update_position() of the visibility tracker
UpdateVis ==
    /\ prog = "vis"
    /\ pc = "update"
    /\ SetOutputs(update_position_vis(current_time,
                                      ComputeRaises(current_time, bad), Outputs))
    /\ pc' = "idle"
    /\ passes' = passes + 1
    /\ UNCHANGED << prog, current_time, bad, past_lons, past_lats, positions,
                    start_time, pushed, keys, undo >>
    /\ UNCHANGED << footVars, pathVars >>

\* update_position() of the day/night tracker
UpdateDayNight ==
    /\ prog = "daynight"
    /\ pc = "update"
    /\ SetOutputs(update_position_daynight(current_time,
                                           ComputeRaises(current_time, bad),
                                           bad, Outputs))
    /\ pc' = "idle"
    /\ passes' = passes + 1
    /\ UNCHANGED << prog, current_time, bad, past_lons, past_lats, positions,
                    start_time, pushed, keys, undo >>
    /\ UNCHANGED << footVars, pathVars >>

\* the live tracker's acquisition at startup: "initial = get_iss_position()"
LiveInitial ==
    /\ prog = "live"
    /\ pc = "update"
    /\ \E result \in LiveResults :
          IF result = << >>
          THEN /\ pass_result' = "failed"
               /\ UNCHANGED << positions, marker, title, shade, pushed >>
          ELSE /\ pass_result' = "ok"
               /\ positions' = Append(positions, << result[1], result[2] >>)
               /\ pushed' = Append(pushed, << result[1], result[2] >>)
               /\ marker' = << result[1], result[2] >>
               /\ title' = << result[3] >>
               /\ shade' = << result[3] >>
    /\ pc' = "idle"
    /\ passes' = passes + 1
    /\ UNCHANGED << prog, current_time, bad, iss_at, past_lons, past_lats,
                    orbit_path, circle, dist_from, start_time, keys, undo >>
    /\ UNCHANGED << footVars, pathVars >>

\* update(frame) of the live tracker, called by the animation timer
LiveUpdate ==
    /\ prog = "live"
    /\ pc = "idle"
    /\ passes < MaxFrames
    /\ \E result \in LiveResults :
          IF result = << >>
          THEN /\ pass_result' = "failed"
               /\ UNCHANGED << positions, marker, title, shade, pushed >>
          ELSE /\ pass_result' = "ok"
               /\ positions' = PushLive(positions, << result[1], result[2] >>)
               /\ pushed' = Append(pushed, << result[1], result[2] >>)
               /\ marker' = << result[1], result[2] >>
               /\ title' = << result[3], result[2], result[1] >>
               /\ shade' = << result[3] >>
    /\ passes' = passes + 1
    /\ UNCHANGED << prog, pc, current_time, bad, iss_at, past_lons, past_lats,
                    orbit_path, circle, dist_from, start_time, keys, undo >>
    /\ UNCHANGED << footVars, pathVars >>

----------------------------------------------------------------------------
(* Specification of the footprint as a pure function: the arguments are    *)
(* drawn from FootLats x FootLons x FootRadii and the function is applied. *)

FootLats  == {-80, -52, -30, 0, 30, 52, 80}
FootLons  == {-179, -120, -60, 0, 60, 120, 170, 180}
FootRadii == {0, 500, 2000, 5000}

InitFoot ==
    /\ f_lat \in FootLats
    /\ f_lon \in FootLons
    /\ f_radius \in FootRadii
    /\ f_called = FALSE
    /\ f_angles = << >>
    /\ circle_lons = << >>
    /\ circle_lats = << >>

FootprintCall ==
    /\ ~f_called
    /\ LET r == calculate_visibility_circle(f_lat, f_lon, f_radius)
       IN  /\ f_angles' = r.angles
           /\ circle_lons' = r.lons
           /\ circle_lats' = r.lats
    /\ f_called' = TRUE
    /\ UNCHANGED << f_lat, f_lon, f_radius >>

----------------------------------------------------------------------------
(* Specification of the path sampler as a pure function.                   *)

PathCenters == {0, 30}
PathBefores == {-60, 0, 60, 120}
PathAfters  == {0, 60, 90}
PathSteps   == {-30, 0, 30, 45, 60}
PathBadInstants == {-60, 0, 30}

NoResult == [ status |-> "none", times |-> << >>, lons |-> << >>,
              lats |-> << >>, iss_at |-> << >> ]

InitPath ==
    /\ p_center \in PathCenters
    /\ p_before \in PathBefores
    /\ p_after \in PathAfters
    /\ p_step \in PathSteps
    /\ p_bad \in SUBSET PathBadInstants
    /\ p_called = FALSE
    /\ p_res = NoResult

PathCall ==
    /\ ~p_called
    /\ p_res' = calculate_orbit_path(<< >>, p_center, p_before, p_after, p_step, p_bad)
    /\ p_called' = TRUE
    /\ UNCHANGED << p_center, p_before, p_after, p_step, p_bad >>

----------------------------------------------------------------------------
(* Specifications *)

vars == << footVars, pathVars, sessVars >>

\* no session running
SessionIdle ==
    /\ prog = "none" /\ pc = "idle" /\ current_time = 0 /\ start_time = 0
    /\ bad = {} /\ iss_at = << >>
    /\ past_lons = << >> /\ past_lats = << >> /\ positions = << >>
    /\ marker = << >> /\ orbit_path = [lons |-> << >>, lats |-> << >>]
    /\ circle = << >> /\ dist_from = << >> /\ title = << >> /\ shade = << >>
    /\ pushed = << >> /\ keys = [k \in Keys |-> 0]
    /\ passes = 0 /\ pass_result = "none"
    /\ undo = [key |-> "none", t |-> 0, back |-> FALSE]


\* no footprint call in progress
FootIdle ==
    /\ f_lat = 0 /\ f_lon = 0 /\ f_radius = 0
    /\ f_called = FALSE
    /\ f_angles = << >> /\ circle_lons = << >> /\ circle_lats = << >>

\* no path call in progress
PathIdle ==
    /\ p_center = 0 /\ p_before = 0 /\ p_after = 0 /\ p_step = 0
    /\ p_bad = {}
    /\ p_called = FALSE
    /\ p_res = NoResult

Init == InitSession /\ FootIdle /\ PathIdle

Next ==
    \/ \E key \in Keys : OnKey(key)
    \/ UpdateTLE
    \/ UpdateVis
    \/ UpdateDayNight
    \/ LiveInitial
    \/ LiveUpdate

Spec == Init /\ [][Next]_vars

\* the footprint function alone
InitFootOnly == InitFoot /\ PathIdle /\ SessionIdle
NextFootOnly == FootprintCall /\ UNCHANGED << pathVars, sessVars >>
SpecFoot == InitFootOnly /\ [][NextFootOnly]_vars

\* the path sampler alone
InitPathOnly == InitPath /\ FootIdle /\ SessionIdle
NextPathOnly == PathCall /\ UNCHANGED << footVars, sessVars >>
SpecPath == InitPathOnly /\ [][NextPathOnly]_vars

----------------------------------------------------------------------------
(* Claims about the sessions (checked under Spec) *)

\* the last n entries of s, in order (all of s when it has at most n)
LastN(s, n) == IF Len(s) <= n THEN s ELSE SubSeq(s, Len(s) - n + 1, Len(s))

\* the TLE tracker's trail as (lon, lat) pairs
TrailTLE == [k \in 1..Len(past_lons) |-> << past_lons[k], past_lats[k] >>]

\* C1: a trail never holds more than its capacity, and it always holds
\* exactly the last N points pushed (all of them while fewer than N were
\* pushed), in push order: overflow evicts the oldest entries only.
C1_TrailKeepsLastN ==
    /\ Len(past_lons) <= CapTLE /\ Len(past_lats) = Len(past_lons)
    /\ Len(positions) <= CapLive
    /\ prog = "tle" => TrailTLE = LastN(pushed, CapTLE)
    /\ prog = "live" => positions = LastN(pushed, CapLive)

C1_Witness ==
    /\ prog = "tle" /\ Len(pushed) >= CapTLE + 2
    /\ Len(past_lons) = CapTLE /\ TrailTLE[1] # pushed[1]

\* C2: a forward advance directly followed by the backward advance of the
\* same magnitude leaves the cursor at the value it had before the two.
C2_ForwardBackwardRoundTrip ==
    undo.back => current_time = undo.t

C2_Witness ==
    /\ prog = "daynight" /\ undo.back /\ undo.key = "shift+right"
    /\ undo.t # start_time /\ pc = "idle"

\* a step that is a recomputation pass whose current-instant propagation
\* (live tracker: position acquisition) fails
FailedPassStep ==
    /\ passes' = passes + 1
    /\ IF prog = "live" THEN pass_result' = "failed"
                        ELSE ComputeRaises(current_time, bad)

\* C6: a pass whose current-instant propagation or acquisition fails leaves
\* the trail and the cursor exactly as they were before the pass.
C6_FailedPassLeavesState ==
    [][FailedPassStep =>
          /\ past_lons' = past_lons /\ past_lats' = past_lats
          /\ positions' = positions
          /\ current_time' = current_time]_vars

C6_Witness ==
    /\ prog = "tle" /\ pass_result = "failed" /\ pc = "idle"
    /\ Len(past_lons) >= 2 /\ current_time \in bad

\* the steps of a script; the two scripts without a long step treat
\* shift+arrow like any other key
ShortStepOf(p) == IF p = "daynight" THEN TimeStep30 ELSE TimeStep10
LongStepOf(p) == IF p = "daynight" THEN LongTimeStep ELSE 0

\* C10: after any sequence of key events the cursor is its initial value
\* plus (rights - lefts) * short step plus (shift+rights - shift+lefts) *
\* long step, whatever the order; no other key moves it and no advance is
\* refused or clamped.
C10_CursorIsSumOfAdvances ==
    prog # "live" =>
        current_time = start_time
            + (keys["right"] - keys["left"]) * ShortStepOf(prog)
            + (keys["shift+right"] - keys["shift+left"]) * LongStepOf(prog)

C10_Witness ==
    /\ prog = "daynight" /\ current_time < start_time /\ current_time < 0
    /\ keys["right"] = 1 /\ keys["shift+left"] = 1 /\ keys["up"] = 1
    /\ keys["none"] = 1

\* C11: after every pass of the day/night tracker the marker, the
\* visibility circle and the point the target distances are measured from
\* are those of the sub-point at the cursor instant, although path
\* sampling has left the shared iss object at another instant: a completed
\* pass leaves the object at the last instant of the path window, and a
\* pass cut short by path sampling has still placed the marker from the
\* cursor instant.
C11_OutputsFromCursorInstant ==
    (prog = "daynight" /\ pc = "idle") =>
        /\ pass_result = "ok" =>
              /\ marker = << SubLon(current_time), SubLat(current_time) >>
              /\ circle = << SubLat(current_time), SubLon(current_time),
                             ISS_VIEW_RANGE >>
              /\ dist_from = << SubLat(current_time), SubLon(current_time) >>
              /\ title = << current_time, SubLat(current_time),
                            SubLon(current_time) >>
              /\ iss_at = << current_time + IssPathAfter >>
        /\ pass_result = "partial" =>
              marker = << SubLon(current_time), SubLat(current_time) >>

C11_Witness ==
    /\ prog = "daynight" /\ pc = "idle" /\ pass_result = "ok"
    /\ keys["right"] >= 1 /\ passes >= 2
    /\ iss_at = << current_time + IssPathAfter >>
    /\ SubPoint(iss_at[1]) # SubPoint(current_time)
    /\ circle = << SubLat(current_time), SubLon(current_time), ISS_VIEW_RANGE >>
    /\ dist_from = << SubLat(current_time), SubLon(current_time) >>

\* the 'left' and 'right' key events so far
RecognisedKeys == keys["right"] + keys["left"]

Min(a, b) == IF a <= b THEN a ELSE b

\* C12 as stated: in the TLE trail tracker, after k recognised key events
\* past_lons and past_lats both have length min(k + 1, capacity).
C12_OneEntryPerPass ==
    (prog = "tle" /\ pc = "idle") =>
        /\ Len(past_lons) = Min(RecognisedKeys + 1, CapTLE)
        /\ Len(past_lats) = Min(RecognisedKeys + 1, CapTLE)

\* C12: in the TLE trail tracker there is one pass at startup and one per
\* 'left'/'right' key event, none for any other key; a pass pushes exactly
\* one entry, the sub-point at the cursor (also at an instant visited
\* before), unless its propagation raises, and then it pushes none; no
\* other step pushes.  So the two lists are always of equal length, hold
\* min(number of passes that succeeded, capacity) entries, and after k
\* recognised key events hold min(k + 1, capacity) entries when no pass
\* has failed, fewer than k + 1 otherwise.
C12_OneEntryPerSuccessfulPass ==
    /\ [](prog = "tle" =>
            /\ Len(past_lats) = Len(past_lons)
            /\ Len(past_lons) = Min(Len(pushed), CapTLE)
            /\ Len(pushed) <= passes
            /\ passes = RecognisedKeys + (IF pc = "update" THEN 0 ELSE 1)
            /\ (pc = "idle" /\ Len(pushed) = passes) =>
                   Len(past_lons) = Min(RecognisedKeys + 1, CapTLE)
            /\ (pc = "idle" /\ Len(pushed) < passes) =>
                   Len(pushed) < RecognisedKeys + 1)
    /\ [][prog = "tle" =>
            pushed' = IF passes' = passes + 1
                         /\ ~ComputeRaises(current_time, bad)
                      THEN Append(pushed, SubPoint(current_time))
                      ELSE pushed]_vars

C12_Witness ==
    /\ prog = "tle" /\ pc = "idle"
    /\ RecognisedKeys = CapTLE /\ keys["up"] = 1
    /\ passes = CapTLE + 1 /\ Len(pushed) = passes
    /\ Len(past_lons) = CapTLE /\ Len(past_lats) = CapTLE
    /\ \E i, j \in 1..Len(pushed) : i < j /\ pushed[i] = pushed[j]

----------------------------------------------------------------------------
(* Claims about the path sampler (checked under SpecPath) *)

\* the samples of the instants of times at which compute does not raise
GoodTimes(times, failing) == SelectSeq(times, LAMBDA t : ~ComputeRaises(t, failing))

C4_SkipAndContinue ==
    (p_called /\ p_step > 0)
        => /\ p_res.status = "returned"
           /\ p_res.lons = [k \in 1..Len(GoodTimes(p_res.times, p_bad)) |->
                               SubLon(GoodTimes(p_res.times, p_bad)[k])]

\* C5, as stated: a step <= 0 is rejected before any sampling: the call
\* neither returns normally nor generates a single instant (stated for the
\* windows that hold an instant to generate, before + after >= 0).
C5_NonPositiveStepRejected ==
    (p_called /\ p_step <= 0 /\ p_before + p_after >= 0)
        => /\ p_res.status \notin {"returned", "exhausted"}
           /\ p_res.times = << >>

\* C9: for step > 0 and before + after >= 0 the instants generated are
\* center - before + i*step for i = 0 .. floor((before+after)/step), strictly
\* increasing, none after center + after, center + after among them exactly
\* when step divides before + after; a call that returns returns one sample
\* per instant, the sub-point at that instant.
C9_SampleCount ==
    (p_called /\ p_step > 0 /\ p_before + p_after >= 0)
        => LET n     == (p_before + p_after) \div p_step + 1
               times == p_res.times
           IN  /\ p_res.status \in {"returned", "raised"}
               /\ Len(times) = n
               /\ \A i \in 1..n : times[i] = p_center - p_before + (i - 1) * p_step
               /\ \A i \in 1..(n - 1) : times[i] < times[i + 1]
               /\ times[1] = p_center - p_before
               /\ \A i \in 1..n : times[i] <= p_center + p_after
               /\ (\E i \in 1..n : times[i] = p_center + p_after)
                     <=> ((p_before + p_after) % p_step = 0)
               /\ p_res.status = "returned" =>
                     /\ Len(p_res.lons) = n /\ Len(p_res.lats) = n
                     /\ \A i \in 1..n : /\ p_res.lons[i] = SubLon(times[i])
                                        /\ p_res.lats[i] = SubLat(times[i])

C9_Witness ==
    /\ p_called /\ p_step = 45 /\ p_before = 120 /\ p_after = 90
    /\ p_res.status = "returned" /\ Len(p_res.lons) = 5

----------------------------------------------------------------------------
(* Claims about the footprint (checked under SpecFoot) *)

\* C7, as stated: the i-th bearing is i * 2pi / point_count, i from 0; the
\* bearing 2pi is never sampled and no two bearings coincide modulo 2pi.
C7_HalfOpenBearings ==
    f_called
        => /\ \A i \in 1..PointCount : f_angles[i] * PointCount = (i - 1) * TwoPi
           /\ \A i \in 1..PointCount : f_angles[i] < TwoPi
           /\ \A i, j \in 1..PointCount :
                 i # j => f_angles[i] % TwoPi # f_angles[j] % TwoPi

\* C7, amended: the point_count bearings are evenly spaced over the closed
\* range [0, 2pi]: the i-th is i * 2pi / (point_count - 1), i from 0; the
\* last bearing is 2pi, which coincides with the first modulo 2pi, and no
\* other two bearings coincide.
C7_ClosedBearings ==
    f_called
        => /\ Len(f_angles) = PointCount
           /\ Len(circle_lons) = PointCount /\ Len(circle_lats) = PointCount
           /\ \A i \in 1..PointCount :
                 f_angles[i] * (PointCount - 1) = (i - 1) * TwoPi
           /\ f_angles[1] = 0 /\ f_angles[PointCount] = TwoPi
           /\ \A i, j \in 1..PointCount :
                 (i < j /\ f_angles[i] % TwoPi = f_angles[j] % TwoPi)
                     => (i = 1 /\ j = PointCount)

C7_Witness ==
    /\ f_called /\ f_radius = 2000 /\ f_lat = 52
    /\ f_angles[PointCount] = TwoPi /\ f_angles[2] * (PointCount - 1) = TwoPi

\* C8, as stated: every longitude the footprint produces lies in
\* (-180, 180], for every center whose longitude lies in that range.
C8_LongitudeCanonical ==
    (f_called /\ -180 < f_lon /\ f_lon <= 180)
        => \A k \in 1..PointCount : -180 < circle_lons[k] /\ circle_lons[k] <= 180

====
